---------------------------- MODULE Spec2Model ----------------------------
(***************************************************************************)
(* A model of the Azure AD B2C user client of src/src/b2cusers.py (class   *)
(* User) and of the connection it builds (src/src/azuregraphscripts/       *)
(* mggraph.py).  The Graph server is the environment: every response is an *)
(* input of the action that receives it.                                   *)
(***************************************************************************)
EXTENDS Integers, Sequences, FiniteSets, TLC

(***************************************************************************)
(* Bounds of the model.                                                    *)
(***************************************************************************)
MaxSchemaLen == 2      \* entries of a fetched user-flow attribute schema
MaxInclude   == 1      \* length of include_attributes
MaxPages     == 3      \* pages of one unbounded listing
MaxPageSize  == 1      \* records of one page

(***************************************************************************)
(* Program constants.                                                      *)
(***************************************************************************)
PageTop  == 999        \* "$top": 999 of the unbounded listing
TopLimit == 999        \* elif(max <= 999)

Clients     == {"c1", "c2"}
TenantNames == {"contoso.onmicrosoft.com", "fabrikam.onmicrosoft.com"}
UserIds     == {"u1"}
Links       == {"link1", "link2"}
PyNone      == "<None>"

base_user_attributes ==
    {"id", "givenName", "surname", "jobTitle", "mail", "creationType",
     "identities", "accountEnabled"}
extended_user_attributes == {"id", "ageGroup", "createdDateTime", "userType"}
unwanted_attributes ==
    {"emails", "jobTitle", "legalAgeGroupClassification", "newUser", "ObjectId"}

(***************************************************************************)
(* The schema entries a tenant can hold: {id, displayName,                 *)
(* userFlowAttributeType}.  Ids are unique; a custom attribute's id is     *)
(* extension_<app id>_<name>.  The custom attribute "Emails" lower-cases   *)
(* to the id of the built-in attribute "emails".                           *)
(***************************************************************************)
SchemaEntries ==
    { [id |-> "emails", displayName |-> "Email Addresses",
       userFlowAttributeType |-> "builtIn"],
      [id |-> "extension_app_Emails", displayName |-> "Emails",
       userFlowAttributeType |-> "custom"],
      [id |-> "extension_app_Color", displayName |-> "Color",
       userFlowAttributeType |-> "custom"] }

\* str.lower() on the display names of the model
Lower(s) ==
    CASE s = "Email Addresses" -> "email addresses"
      [] s = "Emails"          -> "emails"
      [] s = "Color"           -> "color"
      [] OTHER                 -> s

Range(f) == {f[x] : x \in DOMAIN f}
SeqsUpTo(S, n) == UNION {[1..k -> S] : k \in 0..n}
Injective(s) == \A i, j \in DOMAIN s : s[i] = s[j] => i = j

\* the schemas the server can answer with: distinct entries in any order
Schemas == {s \in SeqsUpTo(SchemaEntries, MaxSchemaLen) : Injective(s)}

(***************************************************************************)
(* Python dicts are functions; d[k] = v is DictSet.                        *)
(***************************************************************************)
EmptyDict == [k \in {} |-> PyNone]
DictSet(d, k, v) == [x \in DOMAIN d \cup {k} |-> IF x = k THEN v ELSE d[x]]

VARIABLES
    custom_user_attributes,      \* class attribute User.custom_user_attributes
    constructed,                 \* the clients whose __init__ has run
    tenant_name,                 \* self.tenant_name
    userflow_user_attributes,    \* self.userflow_user_attributes
    userflow_attribute_mapping,  \* self.userflow_attribute_mapping
    fetched,                     \* the schema __init__ fetched (history)
    pc,                          \* "idle", "awaiting" (a page), "returned"
    call,                        \* the running or last call and its arguments
    sent,                        \* the HTTP requests of that call, in order
    received,                    \* the responses the call has read, in order
    all_customers,               \* the local all_customers of list
    result                       \* what the call returned or raised

vars == <<custom_user_attributes, constructed, tenant_name,
          userflow_user_attributes, userflow_attribute_mapping, fetched,
          pc, call, sent, received, all_customers, result>>

clientVars == <<custom_user_attributes, constructed, tenant_name,
                userflow_user_attributes, userflow_attribute_mapping, fetched>>

NoCall   == [op |-> "none"]
NoResult == [kind |-> "none"]
Returns(v) == [kind |-> "return", value |-> v]
Raises(e)  == [kind |-> "raise", exc |-> e]

\* a Python list and a Python dict, told apart as isinstance would
PyList(items) == [kind |-> "list", items |-> items]
PyDict(d)     == [kind |-> "dict", dict |-> d]

(***************************************************************************)
(* connect_mggraph_application: one token request, then the client.        *)
(***************************************************************************)
connect_mggraph_application ==
    <<[method |-> "POST", url |-> "/oauth2/v2.0/token"]>>

(***************************************************************************)
(* User.__init__                                                           *)
(***************************************************************************)
\* MappingKey without the .lower() of the display name
MappingKeyNoLower(extension) ==
    IF extension.userFlowAttributeType = "builtIn"
    THEN extension.id
    ELSE extension.displayName

\* the key one schema entry is stored under
MappingKey(extension) ==
    IF extension.userFlowAttributeType = "builtIn"
    THEN extension.id
    ELSE Lower(extension.displayName)

\* the mapping after the first n entries of the loop
RECURSIVE MappingAfter(_, _)
MappingAfter(schema, n) ==
    IF n = 0 THEN EmptyDict
    ELSE DictSet(MappingAfter(schema, n - 1),
                 MappingKey(schema[n]), schema[n].id)

IsCustom(extension) == extension.userFlowAttributeType # "builtIn"

\* the ids the loop appends to custom_user_attributes
RECURSIVE CustomAppended(_, _)
CustomAppended(schema, n) ==
    IF n = 0 THEN << >>
    ELSE IF IsCustom(schema[n])
         THEN Append(CustomAppended(schema, n - 1), schema[n].id)
         ELSE CustomAppended(schema, n - 1)

Construct(c, tenant, schema) ==
    /\ pc = "idle"
    /\ c \notin constructed
    /\ constructed' = constructed \cup {c}
    /\ tenant_name' = [tenant_name EXCEPT ![c] = tenant]
    /\ fetched' = [fetched EXCEPT ![c] = schema]
    /\ userflow_user_attributes' =
           [userflow_user_attributes EXCEPT
               ![c] = [i \in 1..Len(schema) |-> schema[i].id]]
    /\ userflow_attribute_mapping' =
           [userflow_attribute_mapping EXCEPT
               ![c] = MappingAfter(schema, Len(schema))]
    /\ custom_user_attributes' =
           custom_user_attributes \o CustomAppended(schema, Len(schema))
    /\ pc' = "returned"
    /\ call' = [op |-> "init", client |-> c]
    /\ sent' = connect_mggraph_application \o
               <<[method |-> "GET", url |-> "/identity/userFlowAttributes"]>>
    /\ received' = <<[value |-> schema]>>
    /\ all_customers' = PyList(<< >>)
    /\ result' = Returns(PyNone)

all_user_attributes(c) ==
    base_user_attributes \cup extended_user_attributes
        \cup Range(userflow_user_attributes[c])

(***************************************************************************)
(* User.list                                                               *)
(***************************************************************************)
IncludeNames == {"emails", "color", "Color", "unknownfield"}
Includes     == SeqsUpTo(IncludeNames, MaxInclude)
MaxValues    == {-1, 0, 1, TopLimit, TopLimit + 1}
NoLink       == "<no link>"

\* the index of the first include_attribute that is no key of the mapping
\* (where the loop raises), 0 when there is none
FirstUnknown(mapping, include) ==
    LET bad == {i \in DOMAIN include : include[i] \notin DOMAIN mapping}
    IN  IF bad = {} THEN 0 ELSE CHOOSE i \in bad : \A j \in bad : i <= j

attributes_to_fetch(mapping, include) ==
    base_user_attributes \cup {mapping[include[i]] : i \in DOMAIN include}

UsersRequest(select, top) ==
    [method |-> "GET", url |-> "/users", select |-> select, top |-> top,
     filter |-> "creationType eq 'LocalAccount'"]

LinkRequest(next_link) == [method |-> "GET", url |-> next_link]

\* a response body: {"value": [...]} with or without "@odata.nextLink"
Response(value, link) ==
    IF link = NoLink
    THEN ("value" :> value)
    ELSE ("value" :> value) @@ ("@odata.nextLink" :> link)

\* HasNextLink looking for the key without its "@"
HasNextLinkWrongKey(fetch_customers) == "odata.nextLink" \in DOMAIN fetch_customers

HasNextLink(fetch_customers) == "@odata.nextLink" \in DOMAIN fetch_customers

\* the records the server can answer a $select with: it returns the id and
\* leaves out unset attributes
ServerRecords(select) ==
    LET extras == select \ base_user_attributes
    IN  { [k \in K |-> IF k = "id" THEN u ELSE "x"] :
            u \in UserIds, K \in {{"id"}, {"id"} \cup extras} }

\* {v:k for k,v in mapping.items()}; the values of a mapping are ids of
\* distinct schema entries, so no two keys share a value
reversed_mapping(mapping) ==
    [v \in Range(mapping) |-> CHOOSE k \in DOMAIN mapping : mapping[k] = v]

RemapKey(mapping, custom, attribute) ==
    IF attribute \in Range(custom)
    THEN reversed_mapping(mapping)[attribute]
    ELSE attribute

\* reversed_mapping[attribute] raises KeyError for a custom id it lacks
RemapRaises(mapping, custom, customer) ==
    \E attribute \in DOMAIN customer :
        /\ attribute \in Range(custom)
        /\ attribute \notin Range(mapping)

RemapCustomer(mapping, custom, customer) ==
    [new \in {RemapKey(mapping, custom, a) : a \in DOMAIN customer} |->
        customer[CHOOSE a \in DOMAIN customer :
                     RemapKey(mapping, custom, a) = new]]

\* "Fix fieldnames in returned list": the loop over all_customers.  Over a
\* dict the loop variable is a key, a str, which has no items()
FixFieldnames(mapping, custom, customers) ==
    IF customers.kind = "dict"
    THEN IF DOMAIN customers.dict = {}
         THEN Returns(<< >>)
         ELSE Raises("AttributeError")
    ELSE IF \E i \in DOMAIN customers.items :
                RemapRaises(mapping, custom, customers.items[i])
         THEN Raises("KeyError")
         ELSE Returns([i \in DOMAIN customers.items |->
                          RemapCustomer(mapping, custom, customers.items[i])])

\* ListStart with the range check of max ahead of the check of the names
ListStartMaxFirst(mapping, max, include) ==
    LET bad == FirstUnknown(mapping, include)
    IN
    IF max > TopLimit
    THEN [pc |-> "returned", sent |-> << >>,
          result |-> [kind |-> "raise", exc |-> "Exception",
                      message |-> "max value should be between 0 and 999"]]
    ELSE IF bad # 0
    THEN [pc |-> "returned", sent |-> << >>,
          result |-> [kind |-> "raise", exc |-> "ValueError",
                      attribute |-> include[bad],
                      allowed |-> DOMAIN mapping]]
    ELSE [pc |-> "awaiting",
          sent |-> <<UsersRequest(attributes_to_fetch(mapping, include),
                                  IF max = 0 THEN PageTop ELSE max)>>,
          result |-> NoResult]

\* list up to its first request: the outcome of the checks of the
\* arguments, and the request, if any, that is then in flight
ListStart(mapping, max, include) ==
    LET bad    == FirstUnknown(mapping, include)
        select == attributes_to_fetch(mapping, include)
    IN
    IF bad # 0
    THEN [pc |-> "returned", sent |-> << >>,
          result |-> [kind |-> "raise", exc |-> "ValueError",
                      attribute |-> include[bad],
                      allowed |-> DOMAIN mapping]]
    ELSE IF max = 0
    THEN [pc |-> "awaiting", sent |-> <<UsersRequest(select, PageTop)>>,
          result |-> NoResult]
    ELSE IF max <= TopLimit
    THEN [pc |-> "awaiting", sent |-> <<UsersRequest(select, max)>>,
          result |-> NoResult]
    ELSE [pc |-> "returned", sent |-> << >>,
          result |-> [kind |-> "raise", exc |-> "Exception",
                      message |-> "max value should be between 0 and 999"]]

ListCall(c, max, include) ==
    LET start == ListStart(userflow_attribute_mapping[c], max, include)
    IN
    /\ pc = "idle"
    /\ c \in constructed
    /\ call' = [op |-> "list", client |-> c, max |-> max,
                include_attributes |-> include]
    /\ received' = << >>
    /\ all_customers' = PyList(<< >>)
    /\ result' = start.result
    /\ sent' = start.sent
    /\ pc' = start.pc
    /\ UNCHANGED clientVars

\* the pages the server can answer the request in flight with
Pages ==
    IF pc = "awaiting"
    THEN SeqsUpTo(ServerRecords(sent[1].select), MaxPageSize)
    ELSE {}

\* the response to the request in flight arrives and list runs on: to its
\* next request, or to its end
ListReceive(value, link) ==
    LET c       == call.client
        mapping == userflow_attribute_mapping[c]
        fetch_customers == Response(value, link)
    IN
    /\ pc = "awaiting"
    /\ call.op = "list"
    /\ value \in Pages
    /\ link # NoLink => Len(received) + 1 < MaxPages
    /\ call' = call
    /\ received' = Append(received, fetch_customers)
    /\ IF call.max = 0
       THEN LET extended == PyList(all_customers.items \o fetch_customers["value"])
            IN  /\ all_customers' = extended
                /\ IF HasNextLink(fetch_customers)
                   THEN /\ sent' = Append(sent,
                               LinkRequest(fetch_customers["@odata.nextLink"]))
                        /\ result' = NoResult
                        /\ pc' = "awaiting"
                   ELSE /\ sent' = sent
                        /\ result' = FixFieldnames(mapping,
                               custom_user_attributes, extended)
                        /\ pc' = "returned"
       ELSE /\ all_customers' = PyDict(fetch_customers)
            /\ sent' = sent
            /\ result' = FixFieldnames(mapping, custom_user_attributes,
                                       PyDict(fetch_customers))
            /\ pc' = "returned"
    /\ UNCHANGED clientVars

(***************************************************************************)
(* User.get_attributes                                                     *)
(***************************************************************************)
GetAttributes(c) ==
    /\ pc = "idle"
    /\ c \in constructed
    /\ call' = [op |-> "get_attributes", client |-> c]
    /\ sent' = << >>
    /\ received' = << >>
    /\ all_customers' = PyList(<< >>)
    /\ result' = Returns(all_user_attributes(c))
    /\ pc' = "returned"
    /\ UNCHANGED clientVars

(***************************************************************************)
(* User.search                                                             *)
(***************************************************************************)
Emails == {"ann@example.com"}

Search(c, email, value) ==
    /\ pc = "idle"
    /\ c \in constructed
    /\ call' = [op |-> "search", client |-> c, email |-> email]
    /\ sent' = <<[method |-> "GET", url |-> "/users",
                  issuer |-> tenant_name[c], issuerAssignedId |-> email,
                  select |-> {"id", "identities"}]>>
    /\ received' = <<Response(value, NoLink)>>
    /\ all_customers' = PyList(<< >>)
    /\ result' = Returns(value)
    /\ pc' = "returned"
    /\ UNCHANGED clientVars

(***************************************************************************)
(* User.profile                                                            *)
(***************************************************************************)
\* what the server answers for one user: the id, and of the selected
\* user-flow attributes those that have a value
ProfileResponses(mapping, userid) ==
    UNION { { [k \in K \cup {"id"} |-> IF k = "id" THEN userid ELSE val[k]] :
                val \in [K -> {"x", "y"}] } :
            K \in SUBSET (Range(mapping) \ {"id"}) }

\* ProfileFilled without the None of an absent field: the key is left out
ProfileFilledSparse(mapping, graph_user_profile) ==
    [attribute \in {a \in DOMAIN mapping : mapping[a] \in DOMAIN graph_user_profile} |->
        graph_user_profile[mapping[attribute]]]

\* the loop over userflow_attribute_mapping.items()
ProfileFilled(mapping, graph_user_profile) ==
    [attribute \in DOMAIN mapping |->
        IF mapping[attribute] \in DOMAIN graph_user_profile
        THEN graph_user_profile[mapping[attribute]]
        ELSE PyNone]

\* user_profile.pop(attribute, "") for every unwanted attribute
PopUnwanted(user_profile) ==
    [attribute \in DOMAIN user_profile \ unwanted_attributes |->
        user_profile[attribute]]

Profile(c, userid, graph_user_profile) ==
    /\ pc = "idle"
    /\ c \in constructed
    /\ call' = [op |-> "profile", client |-> c, userid |-> userid]
    /\ sent' = <<[method |-> "GET", url |-> "/users/{userid}",
                  userid |-> userid, select |-> all_user_attributes(c)]>>
    /\ received' = <<graph_user_profile>>
    /\ all_customers' = PyList(<< >>)
    /\ result' = Returns(PopUnwanted(
                     ProfileFilled(userflow_attribute_mapping[c],
                                   graph_user_profile)))
    /\ pc' = "returned"
    /\ UNCHANGED clientVars

(***************************************************************************)
(* User.create and User.update                                             *)
(***************************************************************************)
UserKeys == {"email", "password", "displayName", "color", "unknownfield"}

FieldValue(k) ==
    CASE k = "email"       -> "ann@example.com"
      [] k = "password"    -> "S3cret!"
      [] k = "displayName" -> "Ann"
      [] k = "givenName"   -> "Ann"
      [] k = "color"       -> "red"
      [] OTHER             -> "other"

\* the user dicts a caller passes to update, and to create
UserRecords == { [k \in K |-> FieldValue(k)] : K \in SUBSET UserKeys }
NewUserRecords ==
    { [k \in K |-> FieldValue(k)] : K \in SUBSET (UserKeys \cup {"givenName"}) }

\* f"{given} {surname}" on the values of the model; None formats as "None"
FullName(given, surname) ==
    CASE given = PyNone /\ surname = PyNone -> "None None"
      [] given = "Ann"  /\ surname = PyNone -> "Ann None"
      [] OTHER                              -> "<given> <surname>"

\* user.get(key): None when the key is absent
PyGet(user, key) == IF key \in DOMAIN user THEN user[key] ELSE PyNone

\* MapKnownFields passing a name the mapping does not know through as it is
MapAllFields(mapping, user) ==
    LET id(a) == IF a \in DOMAIN mapping THEN mapping[a] ELSE a
    IN  [mapped_attribute \in {id(a) : a \in DOMAIN user} |->
            user[CHOOSE a \in DOMAIN user : id(a) = mapped_attribute]]

\* "First map the known fields, extension attributes": the loop over
\* userflow_attribute_mapping.items() of create and of update
MapKnownFields(mapping, user) ==
    LET known == DOMAIN mapping \cap DOMAIN user
    IN  [mapped_attribute \in {mapping[a] : a \in known} |->
            user[CHOOSE a \in known : mapping[a] = mapped_attribute]]

\* Identities with the issuer and the assigned id taken one for the other
IdentitiesSwapped(tenant, email) ==
    << [issuer |-> email, issuerAssignedId |-> tenant,
        signInType |-> "emailAddress"] >>

\* mapped_new_user["identities"]: one local sign-in by email
Identities(tenant, email) ==
    << [issuer |-> tenant, issuerAssignedId |-> email,
        signInType |-> "emailAddress"] >>

\* mapped_new_user once every assignment before the post has run; the
\* caller has checked that user holds "email" and "password"
CreatePayload(mapping, tenant, user) ==
    LET m0 == MapKnownFields(mapping, user)
        m1 == DictSet(m0, "displayName",
                  IF "displayName" \in DOMAIN user
                  THEN user["displayName"]
                  ELSE FullName(PyGet(user, "givenName"), PyGet(user, "surname")))
        m2 == DictSet(m1, "mail", user["email"])
        m3 == DictSet(m2, "accountEnabled", TRUE)
        m4 == DictSet(m3, "passwordPolicies", "DisablePasswordExpiration")
        m5 == DictSet(m4, "passwordProfile",
                  [password |-> user["password"],
                   forceChangePasswordNextSignIn |-> FALSE])
    IN  DictSet(m5, "identities", Identities(tenant, user["email"]))

\* what the server answers a POST /users with
CreateResponses == { [id |-> "u1"], [error |-> "Request_BadRequest"] }

Create(c, user, create_user) ==
    /\ pc = "idle"
    /\ c \in constructed
    /\ call' = [op |-> "create", client |-> c, user |-> user]
    /\ all_customers' = PyList(<< >>)
    /\ IF "email" \notin DOMAIN user \/ "password" \notin DOMAIN user
       THEN \* user["email"], user["password"] raise KeyError
            /\ sent' = << >>
            /\ received' = << >>
            /\ result' = Raises("KeyError")
       ELSE /\ sent' = <<[method |-> "POST", url |-> "/users",
                          json |-> CreatePayload(userflow_attribute_mapping[c],
                                                 tenant_name[c], user)]>>
            /\ received' = <<create_user>>
            /\ result' = Returns(create_user)
    /\ pc' = "returned"
    /\ UNCHANGED clientVars

\* the status codes a PATCH or a DELETE is answered with
StatusCodes == {204, 404}

\* bool(response): httpx.Response defines neither __bool__ nor __len__, so
\* the object is truthy whatever its status
PyBool(response) == TRUE

Update(c, userid, user, status) ==
    /\ pc = "idle"
    /\ c \in constructed
    /\ call' = [op |-> "update", client |-> c, userid |-> userid, user |-> user]
    /\ all_customers' = PyList(<< >>)
    /\ sent' = <<[method |-> "PATCH", url |-> "/users/{userid}",
                  userid |-> userid,
                  json |-> MapKnownFields(userflow_attribute_mapping[c], user)]>>
    /\ received' = <<[status_code |-> status]>>
    /\ result' = Returns(PyBool([status_code |-> status]))
    /\ pc' = "returned"
    /\ UNCHANGED clientVars

(***************************************************************************)
(* User.delete and User.change_password                                    *)
(***************************************************************************)
Delete(c, userid, status) ==
    /\ pc = "idle"
    /\ c \in constructed
    /\ call' = [op |-> "delete", client |-> c, userid |-> userid]
    /\ all_customers' = PyList(<< >>)
    /\ sent' = <<[method |-> "DELETE", url |-> "/users/{userid}",
                  userid |-> userid]>>
    /\ received' = <<[status_code |-> status]>>
    /\ result' = Returns(PyBool([status_code |-> status]))
    /\ pc' = "returned"
    /\ UNCHANGED clientVars

ChangePassword(c, userid, password, status) ==
    /\ pc = "idle"
    /\ c \in constructed
    /\ call' = [op |-> "change_password", client |-> c, userid |-> userid]
    /\ all_customers' = PyList(<< >>)
    /\ sent' = <<[method |-> "PATCH", url |-> "/users/{userid}",
                  userid |-> userid,
                  json |-> [passwordProfile |->
                               [password |-> password,
                                forceChangePasswordNextSignIn |-> FALSE]]]>>
    /\ received' = <<[status_code |-> status]>>
    /\ result' = Returns(PyBool([status_code |-> status]))
    /\ pc' = "returned"
    /\ UNCHANGED clientVars

(***************************************************************************)
(* The caller takes the result; the client is idle again.                  *)
(***************************************************************************)
Return ==
    /\ pc = "returned"
    /\ pc' = "idle"
    /\ call' = NoCall
    /\ sent' = << >>
    /\ received' = << >>
    /\ all_customers' = PyList(<< >>)
    /\ result' = NoResult
    /\ UNCHANGED clientVars

Init ==
    /\ custom_user_attributes = << >>
    /\ constructed = {}
    /\ tenant_name = [c \in Clients |-> PyNone]
    /\ userflow_user_attributes = [c \in Clients |-> << >>]
    /\ userflow_attribute_mapping = [c \in Clients |-> EmptyDict]
    /\ fetched = [c \in Clients |-> << >>]
    /\ pc = "idle"
    /\ call = NoCall
    /\ sent = << >>
    /\ received = << >>
    /\ all_customers = PyList(<< >>)
    /\ result = NoResult

Next ==
    \/ \E c \in Clients, tenant \in TenantNames, schema \in Schemas :
           Construct(c, tenant, schema)
    \/ \E c \in Clients, max \in MaxValues, include \in Includes :
           ListCall(c, max, include)
    \/ \E value \in Pages, link \in Links \cup {NoLink} :
           ListReceive(value, link)
    \/ \E c \in Clients : GetAttributes(c)
    \/ \E c \in Clients, email \in Emails,
          value \in SeqsUpTo({[id |-> u] : u \in UserIds}, 1) :
           Search(c, email, value)
    \/ \E c \in Clients, userid \in UserIds :
           \E graph_user_profile \in
                  ProfileResponses(userflow_attribute_mapping[c], userid) :
               Profile(c, userid, graph_user_profile)
    \/ \E c \in Clients, user \in NewUserRecords, create_user \in CreateResponses :
           Create(c, user, create_user)
    \/ \E c \in Clients, userid \in UserIds, user \in UserRecords,
          status \in StatusCodes :
           Update(c, userid, user, status)
    \/ \E c \in Clients, userid \in UserIds, status \in StatusCodes :
           Delete(c, userid, status)
    \/ \E c \in Clients, userid \in UserIds, status \in StatusCodes :
           ChangePassword(c, userid, "N3w!", status)
    \/ Return

Spec == Init /\ [][Next]_vars

(***************************************************************************)
(*                              The claims                                 *)
(***************************************************************************)
ListIs(stage) == call.op = "list" /\ pc = stage

\* every include_attribute of the list call is a key of its client's mapping
ValidInclude ==
    \A i \in DOMAIN call.include_attributes :
        call.include_attributes[i] \in DOMAIN userflow_attribute_mapping[call.client]

\* the name a record key is expected to come back under, read off the schema
\* the client fetched: a custom attribute's id becomes its lower-cased display
\* name, every other key stays
ExpectedName(c, key) ==
    LET custom == {i \in DOMAIN fetched[c] :
                      /\ fetched[c][i].id = key
                      /\ fetched[c][i].userFlowAttributeType # "builtIn"}
    IN  IF custom = {} THEN key
        ELSE Lower(fetched[c][CHOOSE i \in custom : TRUE].displayName)

\* out is the record customer with its keys renamed, the values kept
Renamed(c, customer, out) ==
    /\ DOMAIN out = {ExpectedName(c, k) : k \in DOMAIN customer}
    /\ \A k \in DOMAIN customer : out[ExpectedName(c, k)] = customer[k]

RECURSIVE ConcatPages(_, _)
ConcatPages(responses, n) ==
    IF n = 0 THEN << >>
    ELSE ConcatPages(responses, n - 1) \o responses[n]["value"]

RECURSIVE SumPageSizes(_, _)
SumPageSizes(responses, n) ==
    IF n = 0 THEN 0
    ELSE SumPageSizes(responses, n - 1) + Len(responses[n]["value"])

(***************************************************************************)
(* C1: a list call whose max lies outside [0, 999], above or below, sends  *)
(* no HTTP request and ends in a failure.                                  *)
(***************************************************************************)
C1_MaxOutOfRangeRejected ==
    (call.op = "list" /\ (call.max > TopLimit \/ call.max < 0))
        => /\ sent = << >>
           /\ pc = "returned"
           /\ result.kind = "raise"

(***************************************************************************)
(* C2: a list call with an include_attribute that is no key of the mapping *)
(* table raises ValueError, the failure names the keys of the mapping      *)
(* table, and no HTTP request is sent, whatever max is.                    *)
(***************************************************************************)
C2_UnknownIncludeRejected ==
    (call.op = "list" /\ ~ValidInclude)
        => /\ pc = "returned"
           /\ sent = << >>
           /\ result.kind = "raise"
           /\ result.exc = "ValueError"
           /\ result.attribute \in Range(call.include_attributes)
           /\ result.attribute \notin DOMAIN userflow_attribute_mapping[call.client]
           /\ result.allowed = DOMAIN userflow_attribute_mapping[call.client]

C2_Witness ==
    /\ ListIs("returned")
    /\ ~ValidInclude
    /\ call.max > TopLimit
    /\ userflow_attribute_mapping[call.client] # EmptyDict
    /\ result.kind = "raise"

(***************************************************************************)
(* C3: a list call with 0 < max <= 999 and valid include_attributes sends  *)
(* exactly one GET, with $top = max, and returns the records of its        *)
(* response, custom-attribute ids renamed and every other key unchanged.   *)
(***************************************************************************)
C3_BoundedListReturnsRecords ==
    (ListIs("returned") /\ ValidInclude /\ 0 < call.max /\ call.max <= TopLimit)
        => /\ Len(sent) = 1
           /\ sent[1].method = "GET"
           /\ sent[1].top = call.max
           /\ result.kind = "return"
           /\ Len(result.value) = Len(received[1]["value"])
           /\ \A i \in DOMAIN result.value :
                  Renamed(call.client, received[1]["value"][i], result.value[i])

(***************************************************************************)
(* C4: list(max=0) has at most one request in flight; its first request is *)
(* the $top = 999 query and every later one is the continuation link of    *)
(* the response before it; it ends exactly at the first response without a *)
(* link, and returns one record per record of the pages, in page order.    *)
(***************************************************************************)
C4_PagesFollowedInOrder ==
    (call.op = "list" /\ call.max = 0 /\ ValidInclude)
        => /\ pc \in {"awaiting", "returned"}
           /\ Len(sent) = Len(received) + (IF pc = "awaiting" THEN 1 ELSE 0)
           /\ sent[1] = UsersRequest(
                  base_user_attributes \cup
                      {userflow_attribute_mapping[call.client][call.include_attributes[i]] :
                          i \in DOMAIN call.include_attributes},
                  PageTop)
           /\ \A i \in 2..Len(sent) :
                  /\ "@odata.nextLink" \in DOMAIN received[i - 1]
                  /\ sent[i] = [method |-> "GET",
                                url |-> received[i - 1]["@odata.nextLink"]]
           /\ pc = "returned" =>
                  /\ "@odata.nextLink" \notin DOMAIN received[Len(received)]
                  /\ result.kind = "return"
                  /\ Len(result.value) = SumPageSizes(received, Len(received))
                  /\ \A j \in DOMAIN result.value :
                         Renamed(call.client,
                                 ConcatPages(received, Len(received))[j],
                                 result.value[j])

C4_Witness ==
    /\ ListIs("returned")
    /\ call.max = 0
    /\ Len(received) = 3
    /\ Len(received[1]["value"]) = 1
    /\ Len(received[2]["value"]) = 0
    /\ Len(received[3]["value"]) = 1
    /\ result.kind = "return"
    /\ Len(result.value) = 2
    /\ "color" \in DOMAIN result.value[1]
    /\ "color" \notin DOMAIN result.value[2]
(***************************************************************************)
(* C5 as stated: the profile holds a key for every key of the mapping      *)
(* table, None where the response lacks the mapped field, and no key of    *)
(* the denylist.                                                           *)
(***************************************************************************)
C5_ProfileHasEveryMappedKey ==
    (pc = "returned" /\ call.op = "profile")
        => LET mapping == userflow_attribute_mapping[call.client]
           IN  /\ result.kind = "return"
               /\ DOMAIN mapping \subseteq DOMAIN result.value
               /\ DOMAIN result.value \cap unwanted_attributes = {}

(***************************************************************************)
(* C5 as amended: the profile holds exactly the keys of the mapping table  *)
(* that are not on the denylist, each with the value of its mapped field   *)
(* in the response, None where the response lacks that field.              *)
(***************************************************************************)
C5_ProfileShape ==
    (pc = "returned" /\ call.op = "profile")
        => LET mapping == userflow_attribute_mapping[call.client]
           IN  /\ result.kind = "return"
               /\ DOMAIN result.value = DOMAIN mapping \ unwanted_attributes
               /\ \A a \in DOMAIN result.value :
                      result.value[a] =
                          IF mapping[a] \in DOMAIN received[1]
                          THEN received[1][mapping[a]]
                          ELSE PyNone

C5_Witness ==
    /\ pc = "returned"
    /\ call.op = "profile"
    /\ DOMAIN userflow_attribute_mapping[call.client] = {"emails", "color"}
    /\ DOMAIN received[1] = {"id", "emails"}
    /\ result.kind = "return"
    /\ result.value = [color |-> PyNone]

(***************************************************************************)
(* C6 as stated: in every constructed client, a built-in schema entry is   *)
(* mapped id -> id and its id is no custom attribute; any other entry is   *)
(* mapped lower-cased display name -> id and its id is a custom attribute. *)
(***************************************************************************)
EntryKey(e) ==
    IF e.userFlowAttributeType = "builtIn" THEN e.id ELSE Lower(e.displayName)

EntryMapped(c, e) ==
    /\ EntryKey(e) \in DOMAIN userflow_attribute_mapping[c]
    /\ userflow_attribute_mapping[c][EntryKey(e)] = e.id

EntryClassified(e) ==
    IF e.userFlowAttributeType = "builtIn"
    THEN e.id \notin Range(custom_user_attributes)
    ELSE e.id \in Range(custom_user_attributes)

C6_EveryEntryMapped ==
    \A c \in constructed : \A i \in DOMAIN fetched[c] :
        EntryMapped(c, fetched[c][i]) /\ EntryClassified(fetched[c][i])

(***************************************************************************)
(* C6 as amended: the same, the mapping of an entry holding only when no   *)
(* later entry of the schema is stored under the same key (a built-in id   *)
(* or a lower-cased display name); of two entries with one key the later   *)
(* one is the mapped one.                                                  *)
(***************************************************************************)
C6_LastEntryOfKeyMapped ==
    \A c \in constructed : \A i \in DOMAIN fetched[c] :
        /\ EntryClassified(fetched[c][i])
        /\ (\A j \in DOMAIN fetched[c] :
                j > i => EntryKey(fetched[c][j]) # EntryKey(fetched[c][i]))
               => EntryMapped(c, fetched[c][i])

C6_Witness ==
    \E c \in constructed :
        /\ Len(fetched[c]) = 2
        /\ fetched[c][1].userFlowAttributeType = "builtIn"
        /\ fetched[c][2].userFlowAttributeType = "custom"
        /\ EntryKey(fetched[c][1]) = EntryKey(fetched[c][2])
        /\ pc = "returned"
        /\ call.op = "init"
        /\ call.client = c

(***************************************************************************)
(* C7: for every record keyed by custom-attribute ids only, the remap step *)
(* of list yields a record keyed by (lower-cased) display names, and taking*)
(* those keys back through the mapping table gives the record again.       *)
(***************************************************************************)
CustomKeyedRecords ==
    { [k \in K |-> "x"] : K \in SUBSET Range(custom_user_attributes) \ {{}} }

DisplayNames == {Lower(e.displayName) : e \in SchemaEntries}

C7_RemapRoundTrip ==
    \A c \in constructed : \A customer \in CustomKeyedRecords :
        LET mapping == userflow_attribute_mapping[c]
            out == FixFieldnames(mapping, custom_user_attributes,
                                 PyList(<<customer>>))
        IN  /\ out.kind = "return"
            /\ DOMAIN out.value[1] \subseteq DisplayNames \cap DOMAIN mapping
            /\ [id \in {mapping[k] : k \in DOMAIN out.value[1]} |->
                   out.value[1][CHOOSE k \in DOMAIN out.value[1] : mapping[k] = id]]
               = customer

(***************************************************************************)
(* C8 as stated: create and update, given an attribute name that is no key *)
(* of the mapping table, fail before any HTTP request is sent.             *)
(***************************************************************************)
HasUnknownField ==
    \E k \in DOMAIN call.user : k \notin DOMAIN userflow_attribute_mapping[call.client]

CreateOwnKeys ==
    {"displayName", "mail", "accountEnabled", "passwordPolicies",
     "passwordProfile", "identities"}

C9_CustomSetIsOwn ==
    \A c \in constructed :
        Range(custom_user_attributes) =
            {fetched[c][i].id : i \in
                {j \in DOMAIN fetched[c] :
                    fetched[c][j].userFlowAttributeType # "builtIn"}}

(***************************************************************************)
(* C10: whatever else the user record holds, the payload create posts has  *)
(* accountEnabled = true, passwordPolicies = "DisablePasswordExpiration",  *)
(* the password profile of the given password with no forced change, and   *)
(* one identity, of the client's tenant name and the given email.          *)
(***************************************************************************)
C10_CreatePayloadFixedFields ==
    (/\ pc = "returned"
     /\ call.op = "create"
     /\ {"email", "password"} \subseteq DOMAIN call.user)
        => /\ Len(sent) = 1
           /\ sent[1].method = "POST"
           /\ CreateOwnKeys \subseteq DOMAIN sent[1].json
           /\ sent[1].json["accountEnabled"] = TRUE
           /\ sent[1].json["passwordPolicies"] = "DisablePasswordExpiration"
           /\ sent[1].json["passwordProfile"] =
                  [password |-> call.user["password"],
                   forceChangePasswordNextSignIn |-> FALSE]
           /\ Len(sent[1].json["identities"]) = 1
           /\ sent[1].json["identities"][1].issuer = tenant_name[call.client]
           /\ sent[1].json["identities"][1].issuerAssignedId = call.user["email"]

C10_Witness ==
    /\ pc = "returned"
    /\ call.op = "create"
    /\ UserKeys \subseteq DOMAIN call.user
    /\ "color" \in DOMAIN userflow_attribute_mapping[call.client]
    /\ tenant_name[call.client] = "fabrikam.onmicrosoft.com"
    /\ Len(sent) = 1
    /\ "extension_app_Color" \in DOMAIN sent[1].json

(***************************************************************************)
(* C11, the payload: update sends exactly one request, a PATCH whose       *)
(* payload holds, for every name of the record that is a key of the        *)
(* mapping table, that name's id with the record's value, and nothing else.*)
(***************************************************************************)
UpdateSendsPartialPatch ==
    LET mapping == userflow_attribute_mapping[call.client]
        known   == DOMAIN call.user \cap DOMAIN mapping
    IN  /\ Len(sent) = 1
        /\ sent[1].method = "PATCH"
        /\ sent[1].userid = call.userid
        /\ DOMAIN sent[1].json = {mapping[a] : a \in known}
        /\ \A a \in known : sent[1].json[mapping[a]] = call.user[a]
        /\ Cardinality(DOMAIN sent[1].json) = Cardinality(known)

C11_PatchPayload ==
    (pc = "returned" /\ call.op = "update") => UpdateSendsPartialPatch

\* the server acknowledged the PATCH: 204 No Content
Acknowledged(response) == response.status_code = 204

(***************************************************************************)
(* C11: update sends exactly one request, the PATCH of exactly the known   *)
(* names of the record under their ids, and returns whether the server     *)
(* acknowledged it (a bool, not the updated record).                       *)
(***************************************************************************)
C11_UpdateReturnsAcknowledgement ==
    (pc = "returned" /\ call.op = "update")
        => /\ UpdateSendsPartialPatch
           /\ result.kind = "return"
           /\ result.value \in BOOLEAN
           /\ result.value = Acknowledged(received[1])
=============================================================================
